---- MODULE Spec2Model ----
(***************************************************************************)
(* Lazy genealogy tree of src/src/pages/GenealogyTree.tsx.                 *)
(*                                                                         *)
(* GenealogyTree owns the snapshot (genealogyData).  Every rendered node   *)
(* is a TreeNode component instance with two local flags (isExpanded,      *)
(* isLoading).  A click on a node's button runs handleExpandToggle, which  *)
(* may await the data source and then hands the children to                *)
(* updateUserReferrals; that callback belongs to the render in which the   *)
(* click happened and rebuilds the tree from that render's genealogyData.  *)
(***************************************************************************)
EXTENDS Integers, Sequences, FiniteSets, TLC

VARIABLES
  genealogyData,  \* useState<User | null>: <<>> is null, <<root>> a snapshot
  view,           \* mounted TreeNode instances -> [isExpanded, isLoading]
  fetches,        \* handleExpandToggle calls suspended at their await
  applied         \* arguments of the latest updateUserReferrals call, or <<>>

vars == <<genealogyData, view, fetches, applied>>

(***************************************************************************)
(* Bounds of the model.                                                    *)
(***************************************************************************)
\* child addresses the data source can hand out are 1..MaxAddr
MaxAddr == 3
\* longest child sequence the data source returns
MaxKids == 2
\* largest snapshot (in nodes) the data source is allowed to build
MaxNodes == 4
\* largest number of fetches awaiting their result at once
MaxInFlight == 2
\* addresses 0..MaxPureAddr are used where updateUserReferrals and
\* countTotalUsers are exercised on their own
MaxPureAddr == 3
\* users below the root in the deep network
MaxChain == 11

(***************************************************************************)
(* Program constant: children are rendered only while level < 10.          *)
(***************************************************************************)
MaxLevel == 10

(***************************************************************************)
(* interface User { id; address; referrals? }.  The optional referrals     *)
(* field is the pair (fetched, referrals): fetched = FALSE is              *)
(* referrals === undefined, and then referrals is <<>>.                    *)
(***************************************************************************)
RootAddress == 0

ChildAddrs == 1..MaxAddr

AllAddrs == {RootAddress} \cup ChildAddrs

\* the id the data source reports for an address (ids differ from addresses)
UserId(a) == a + 100

User(a, f, kids) ==
  [id |-> UserId(a), address |-> a, fetched |-> f, referrals |-> kids]

\* a node as the data source returns it: children not fetched yet
Unfetched(a) == User(a, FALSE, <<>>)

\* sequences over S of length at most n
SeqsUpTo(S, n) == UNION {[1..k -> S] : k \in 0..n}

\* sequences without a repeated element
Distinct(s) == \A i, j \in 1..Len(s) : i # j => s[i] # s[j]

(***************************************************************************)
(* The data source and the root data provider.                             *)
(***************************************************************************)
\* what fetchUserReferrals may resolve to: unfetched users, distinct keys
ChildSeqs ==
  {[i \in 1..Len(s) |-> Unfetched(s[i])] :
     s \in {q \in SeqsUpTo(ChildAddrs, MaxKids) : Distinct(q)}}

\* what useMLMData may deliver as data.genealogy: the viewer's own node with
\* its direct referrals unknown, known to be none, or known
RootValues ==
  {User(RootAddress, FALSE, <<>>)} \cup {User(RootAddress, TRUE, c) : c \in ChildSeqs}

(***************************************************************************)
(* updateUserReferrals, lines 199-218.                                     *)
(***************************************************************************)
\* variant: the fetched referrals are added to the ones already there
RECURSIVE updateNodeAppends(_, _, _)
updateNodeAppends(node, userAddress, referrals) ==
  IF node.address = userAddress
    THEN [node EXCEPT !.fetched = TRUE, !.referrals = node.referrals \o referrals]
    ELSE IF node.fetched /\ Len(node.referrals) > 0
      THEN [node EXCEPT !.referrals =
              [i \in 1..Len(node.referrals) |->
                 updateNodeAppends(node.referrals[i], userAddress, referrals)]]
      ELSE node

\* variant: every visited node is rebuilt with (node.referrals || []).map(...)
RECURSIVE updateNodeMapsAll(_, _, _)
updateNodeMapsAll(node, userAddress, referrals) ==
  IF node.address = userAddress
    THEN [node EXCEPT !.fetched = TRUE, !.referrals = referrals]
    ELSE [node EXCEPT !.fetched = TRUE, !.referrals =
            [i \in 1..Len(node.referrals) |->
               updateNodeMapsAll(node.referrals[i], userAddress, referrals)]]

RECURSIVE updateNode(_, _, _)
updateNode(node, userAddress, referrals) ==
  IF node.address = userAddress
    THEN [node EXCEPT !.fetched = TRUE, !.referrals = referrals]
    ELSE IF node.fetched /\ Len(node.referrals) > 0
      THEN [node EXCEPT !.referrals =
              [i \in 1..Len(node.referrals) |->
                 updateNode(node.referrals[i], userAddress, referrals)]]
      ELSE node

\* the snapshot passed to setGenealogyData; data is the genealogyData of the
\* render the callback was created in (<<>> is null)
updateUserReferrals(data, userAddress, referrals) ==
  IF data = <<>> THEN data ELSE <<updateNode(data[1], userAddress, referrals)>>

(***************************************************************************)
(* countTotalUsers, lines 293-301.                                         *)
(***************************************************************************)
RECURSIVE SumSeq(_)
SumSeq(s) == IF s = <<>> THEN 0 ELSE Head(s) + SumSeq(Tail(s))

\* variant: the loop adds 1 per referral instead of recursing
countTotalUsersShallow(user) ==
  1 + (IF user.fetched THEN Len(user.referrals) ELSE 0)

RECURSIVE countTotalUsers(_)
countTotalUsers(user) ==
  1 + (IF user.fetched
         THEN SumSeq([i \in 1..Len(user.referrals) |->
                        countTotalUsers(user.referrals[i])])
         ELSE 0)

(***************************************************************************)
(* The header counts, lines 258-263: rendered when genealogyData?.referrals *)
(* is truthy (an array, empty or not, is).  <<>> is "nothing shown".       *)
(***************************************************************************)
\* variant: the counts are shown only for a non-empty referrals array
directReferralCountNonEmpty(data) ==
  IF data # <<>> /\ data[1].fetched /\ Len(data[1].referrals) > 0
    THEN <<Len(data[1].referrals)>>
    ELSE <<>>

directReferralCount(data) ==
  IF data # <<>> /\ data[1].fetched
    THEN <<Len(data[1].referrals)>>
    ELSE <<>>

(***************************************************************************)
(* TreeNode, lines 28-174.  A component instance is identified by the keys *)
(* on the way from the root instance (key = child.address); view maps the  *)
(* mounted instances to their useState values.                             *)
(***************************************************************************)
\* variant: only a non-empty referrals array counts
hasChildrenLoaded(user) == user.fetched /\ Len(user.referrals) > 0

hasChildren(user) == ~user.fetched \/ Len(user.referrals) > 0

childrenFetched(user) == user.fetched

\* useState(level === 0), useState(false)
InitialState(level) == [isExpanded |-> level = 0, isLoading |-> FALSE]

\* the user prop of the instance with key path p
RECURSIVE UserAt(_, _)
UserAt(user, p) ==
  IF p = <<>> THEN user
  ELSE LET i == CHOOSE k \in 1..Len(user.referrals) :
                  user.referrals[k].address = Head(p)
       IN UserAt(user.referrals[i], Tail(p))

StateOf(v, p) == IF p \in DOMAIN v THEN v[p] ELSE InitialState(Len(p))

\* line 157: the children of the instance at p are rendered
RendersChildren(user, p, v) ==
  /\ StateOf(v, p).isExpanded
  /\ childrenFetched(user)
  /\ Len(user.referrals) > 0
  /\ Len(p) < MaxLevel

\* key paths of the instances mounted below (and including) the one at p
RECURSIVE MountedUnder(_, _, _)
MountedUnder(user, p, v) ==
  {p} \cup
  (IF RendersChildren(user, p, v)
     THEN UNION {MountedUnder(user.referrals[i],
                              Append(p, user.referrals[i].address), v) :
                   i \in 1..Len(user.referrals)}
     ELSE {})

\* one render pass: instances that stay mounted keep their state, new ones
\* start from useState's initial values, the others are unmounted
Render(data, v) ==
  IF data = <<>> THEN <<>>
  ELSE [p \in MountedUnder(data[1], <<>>, v) |-> StateOf(v, p)]

\* an awaiting handleExpandToggle whose instance was unmounted can no longer
\* set that instance's state
Orphan(fs, v) ==
  [i \in 1..Len(fs) |->
     IF fs[i].live /\ fs[i].inst \notin DOMAIN v
       THEN [fs[i] EXCEPT !.live = FALSE] ELSE fs[i]]

RemoveAt(s, i) == [k \in 1..(Len(s) - 1) |-> IF k < i THEN s[k] ELSE s[k + 1]]

(***************************************************************************)
(* Initial state: useState<User | null>(null), nothing mounted.            *)
(***************************************************************************)
Init ==
  /\ genealogyData = <<>>
  /\ view = <<>>
  /\ fetches = <<>>
  /\ applied = <<>>

(***************************************************************************)
(* useEffect, lines 182-186: a (new) data.genealogy replaces the snapshot. *)
(***************************************************************************)
RootDelivered(r) ==
  /\ genealogyData' = <<r>>
  /\ view' = Render(<<r>>, view)
  /\ fetches' = Orphan(fetches, view')
  /\ UNCHANGED applied

\* the Root Data Provider supplies the initial root
ProviderFirstLoad(r) == genealogyData = <<>> /\ RootDelivered(r)

\* the provider hands out another data.genealogy object later on
ProviderRefresh(r) == genealogyData # <<>> /\ RootDelivered(r)

(***************************************************************************)
(* handleExpandToggle up to its await, lines 64-75.  The button exists     *)
(* when hasChildren and is disabled while isLoading.                       *)
(***************************************************************************)
CanToggle(p) ==
  /\ p \in DOMAIN view
  /\ hasChildren(UserAt(genealogyData[1], p))
  /\ ~view[p].isLoading

\* lines 66-69
Collapse(p) ==
  /\ CanToggle(p)
  /\ view[p].isExpanded
  /\ view' = Render(genealogyData, [view EXCEPT ![p].isExpanded = FALSE])
  /\ fetches' = Orphan(fetches, view')
  /\ UNCHANGED <<genealogyData, applied>>

\* lines 72-75: the call captures user.address and the render's
\* updateUserReferrals, hence that render's genealogyData
StartFetch(p) ==
  /\ CanToggle(p)
  /\ ~view[p].isExpanded
  /\ ~childrenFetched(UserAt(genealogyData[1], p))
  /\ Len(fetches) < MaxInFlight
  /\ view' = [view EXCEPT ![p].isLoading = TRUE]
  /\ fetches' = Append(fetches,
                  [address |-> UserAt(genealogyData[1], p).address,
                   data |-> genealogyData, inst |-> p, live |-> TRUE])
  /\ UNCHANGED <<genealogyData, applied>>

\* variant: the children are fetched on every expansion
ExpandRefetches(p) ==
  /\ CanToggle(p)
  /\ ~view[p].isExpanded
  /\ childrenFetched(UserAt(genealogyData[1], p))
  /\ Len(fetches) < MaxInFlight
  /\ view' = [view EXCEPT ![p].isLoading = TRUE]
  /\ fetches' = Append(fetches,
                  [address |-> UserAt(genealogyData[1], p).address,
                   data |-> genealogyData, inst |-> p, live |-> TRUE])
  /\ UNCHANGED <<genealogyData, applied>>

\* lines 72, 84
Expand(p) ==
  /\ CanToggle(p)
  /\ ~view[p].isExpanded
  /\ childrenFetched(UserAt(genealogyData[1], p))
  /\ view' = Render(genealogyData, [view EXCEPT ![p].isExpanded = TRUE])
  /\ UNCHANGED <<genealogyData, fetches, applied>>

(***************************************************************************)
(* handleExpandToggle after its await, lines 75-84.                        *)
(***************************************************************************)
\* the record kept of a call updateUserReferrals(userAddress, referrals) made
\* by a callback whose genealogyData is data
Call(data, userAddress, referrals) ==
  [data |-> data, userAddress |-> userAddress, referrals |-> referrals]

\* setIsLoading(false) and setIsExpanded(true) on the calling instance
Settled(v, f) ==
  IF f.live
    THEN [v EXCEPT ![f.inst] = [isExpanded |-> TRUE, isLoading |-> FALSE]]
    ELSE v

\* the promise resolves with children: lines 76, 80, 84
Resolved(i, children) ==
  /\ i \in 1..Len(fetches)
  /\ LET f == fetches[i]
         new == updateUserReferrals(f.data, f.address, children)
     IN /\ genealogyData' = new
        /\ applied' = Call(f.data, f.address, children)
        /\ view' = Render(new, Settled(view, f))
        /\ fetches' = Orphan(RemoveAt(fetches, i), view')

\* the same, with the size of the resulting snapshot capped
FetchSucceed(i, children) ==
  /\ i \in 1..Len(fetches)
  /\ countTotalUsers(updateUserReferrals(fetches[i].data, fetches[i].address,
                                         children)[1]) <= MaxNodes
  /\ Resolved(i, children)

\* the promise rejects: lines 78, 80, 84
FetchFail(i) ==
  /\ i \in 1..Len(fetches)
  /\ LET f == fetches[i]
     IN /\ view' = Render(genealogyData, Settled(view, f))
        /\ fetches' = Orphan(RemoveAt(fetches, i), view')
  /\ UNCHANGED <<genealogyData, applied>>

\* every key path an instance can have
KeyPaths == DOMAIN view

Toggle(p) == Collapse(p) \/ StartFetch(p) \/ Expand(p)

\* one viewer session: the root arrives once
Next ==
  \/ \E r \in RootValues : ProviderFirstLoad(r)
  \/ \E p \in KeyPaths : Collapse(p)
  \/ \E p \in KeyPaths : StartFetch(p)
  \/ \E p \in KeyPaths : Expand(p)
  \/ \E i \in 1..MaxInFlight, c \in ChildSeqs : FetchSucceed(i, c)
  \/ \E i \in 1..MaxInFlight : FetchFail(i)

Spec == Init /\ [][Next]_vars

\* what the provider delivers in a session in which the viewer's direct
\* referrals are re-read: the root with one or with two direct referrals
RefreshValues ==
  {User(RootAddress, TRUE, <<Unfetched(1)>>),
   User(RootAddress, TRUE, <<Unfetched(1), Unfetched(2)>>)}

\* a session in which the provider also re-delivers the root
NextRefresh ==
  \/ \E r \in RefreshValues : ProviderFirstLoad(r)
  \/ \E r \in RefreshValues : ProviderRefresh(r)
  \/ \E p \in KeyPaths : Collapse(p)
  \/ \E p \in KeyPaths : StartFetch(p)
  \/ \E p \in KeyPaths : Expand(p)
  \/ \E i \in 1..MaxInFlight, c \in ChildSeqs : FetchSucceed(i, c)
  \/ \E i \in 1..MaxInFlight : FetchFail(i)

SpecRefresh == Init /\ [][NextRefresh]_vars

(***************************************************************************)
(* A deep network: every user has exactly one direct referral, the user at *)
(* level k has address k.  loadChildren, lines 189-196, then resolves to   *)
(* the one user below.                                                     *)
(***************************************************************************)
ChainRoot == User(RootAddress, TRUE, <<Unfetched(RootAddress + 1)>>)

ChainChildren(a) == <<Unfetched(a + 1)>>

ChainSucceed(i) ==
  /\ i \in 1..Len(fetches)
  /\ fetches[i].address < MaxChain
  /\ Resolved(i, ChainChildren(fetches[i].address))

NextDeep ==
  \/ ProviderFirstLoad(ChainRoot)
  \/ \E p \in KeyPaths : Collapse(p)
  \/ \E p \in KeyPaths : StartFetch(p)
  \/ \E p \in KeyPaths : Expand(p)
  \/ \E i \in 1..MaxInFlight : ChainSucceed(i)
  \/ \E i \in 1..MaxInFlight : FetchFail(i)

SpecDeep == Init /\ [][NextDeep]_vars

\* the oldest awaited onLoadChildren promise settles (resolves or rejects)
ResolveHead == FetchFail(1) \/ ChainSucceed(1)

\* the deep network with a data source that answers every request in the end
SpecDeepFair == SpecDeep /\ WF_vars(ResolveHead)

\* key path of the TreeNode at level k of the deep network
ChainPath(k) == [j \in 1..k |-> j]

(***************************************************************************)
(* updateUserReferrals as a function of its inputs: any snapshot the       *)
(* calls below can build, any target address (present or not), any child   *)
(* sequence (repeated and already used addresses included).                *)
(***************************************************************************)
PureAddrs == 0..MaxPureAddr

\* an address no node of any snapshot carries
MissingAddress == MaxPureAddr + 1

AnyChildSeqs ==
  {[i \in 1..Len(s) |-> Unfetched(s[i])] : s \in SeqsUpTo(PureAddrs, MaxKids)}

InitPure ==
  /\ genealogyData \in {<<r>> : r \in RootValues}
  /\ view = <<>>
  /\ fetches = <<>>
  /\ applied = <<>>

ApplyChildren(t, c) ==
  /\ countTotalUsers(updateUserReferrals(genealogyData, t, c)[1]) <= MaxNodes
  /\ genealogyData' = updateUserReferrals(genealogyData, t, c)
  /\ applied' = Call(genealogyData, t, c)
  /\ UNCHANGED <<view, fetches>>

NextPure ==
  \E t \in PureAddrs \cup {MissingAddress}, c \in AnyChildSeqs : ApplyChildren(t, c)

SpecPure == InitPure /\ [][NextPure]_vars

(***************************************************************************)
(* Reading a snapshot: nodes by position (child indices from the root) and *)
(* by address.                                                             *)
(***************************************************************************)
RECURSIVE Positions(_)
Positions(user) ==
  {<<>>} \cup
  (IF user.fetched
     THEN UNION {{<<i>> \o q : q \in Positions(user.referrals[i])} :
                   i \in 1..Len(user.referrals)}
     ELSE {})

RECURSIVE SubAt(_, _)
SubAt(user, q) ==
  IF q = <<>> THEN user ELSE SubAt(user.referrals[Head(q)], Tail(q))

IsPrefix(a, b) == Len(a) <= Len(b) /\ SubSeq(b, 1, Len(a)) = a

PositionsOf(user, a) == {q \in Positions(user) : SubAt(user, q).address = a}

UniqueAddresses(user) ==
  \A q1, q2 \in Positions(user) :
    q1 # q2 => SubAt(user, q1).address # SubAt(user, q2).address

AddressSeq(kids) == [i \in 1..Len(kids) |-> kids[i].address]

\* address a is in the snapshot and its children are Unknown / Known
IsUnknown(data, a) ==
  /\ data # <<>>
  /\ PositionsOf(data[1], a) # {}
  /\ \A q \in PositionsOf(data[1], a) : ~SubAt(data[1], q).fetched

IsKnown(data, a) ==
  /\ data # <<>>
  /\ PositionsOf(data[1], a) # {}
  /\ \A q \in PositionsOf(data[1], a) : SubAt(data[1], q).fetched

\* the child address sequences recorded for address a
KidsOf(data, a) ==
  {AddressSeq(SubAt(data[1], q).referrals) : q \in PositionsOf(data[1], a)}

(***************************************************************************)
(* C1.  Two fetches for different Unknown nodes a and b are in flight      *)
(* together and both succeed: after the second completion the snapshot     *)
(* holds the children fetched for a and the children fetched for b.        *)
(* Stated on the completing step of b's fetch: a was Unknown when b's      *)
(* fetch started and has been merged since, so a keeps its children and b  *)
(* gets the fetched ones.                                                  *)
(***************************************************************************)
C1_BothMergesKept ==
  [][\A i \in 1..MaxInFlight, c \in ChildSeqs :
       FetchSucceed(i, c) =>
         \A a \in ChildAddrs :
           ( /\ a # fetches[i].address
             /\ IsUnknown(fetches[i].data, a)
             /\ IsUnknown(fetches[i].data, fetches[i].address)
             /\ IsKnown(genealogyData, a)
             /\ IsUnknown(genealogyData, fetches[i].address) )
           => /\ IsKnown(genealogyData', a)
              /\ KidsOf(genealogyData', a) = KidsOf(genealogyData, a)
              /\ KidsOf(genealogyData', fetches[i].address) = {AddressSeq(c)}]_vars

(***************************************************************************)
(* C2.  Within a session (toggles, fetch completions, merges) a node whose *)
(* children are Known in the current snapshot does not have Unknown        *)
(* children in the next one.                                               *)
(***************************************************************************)
C2_KnownStaysKnown ==
  [][\A a \in AllAddrs :
       IsKnown(genealogyData, a) => ~IsUnknown(genealogyData', a)]_vars

(***************************************************************************)
(* C3.  No node has two fetches in flight at once.                         *)
(***************************************************************************)
C3_OneFetchPerNode ==
  \A i, j \in 1..Len(fetches) :
    (fetches[i].address = fetches[j].address /\ fetches[i].inst = fetches[j].inst)
      => i = j

(***************************************************************************)
(* C4.  When the fetch started from a collapsed node with Unknown children *)
(* fails, the node ends collapsed and not loading, its children are still  *)
(* Unknown and the snapshot is the one before the failure.                 *)
(***************************************************************************)
C4_FailureLeavesCollapsed ==
  [][\A i \in 1..MaxInFlight :
       (FetchFail(i) /\ fetches[i].live) =>
         /\ genealogyData' = genealogyData
         /\ fetches[i].inst \in DOMAIN view'
         /\ ~view'[fetches[i].inst].isExpanded
         /\ ~view'[fetches[i].inst].isLoading]_vars

\* the toggle of the instance at p takes the fetch branch (lines 72-75)
TogglesToFetch(p) ==
  /\ CanToggle(p)
  /\ ~view[p].isExpanded
  /\ ~childrenFetched(UserAt(genealogyData[1], p))

(***************************************************************************)
(* C5.  Right after the fetch for a node has failed, a toggle of that node *)
(* (its children still Unknown) issues a fetch again.                      *)
(***************************************************************************)
C5_RetryOnNextToggle ==
  [][\A i \in 1..MaxInFlight, p \in KeyPaths :
       ( /\ FetchFail(i)
         /\ fetches[i].live
         /\ fetches[i].inst = p
         /\ ~childrenFetched(UserAt(genealogyData[1], p)) )
       => TogglesToFetch(p)']_vars


(***************************************************************************)
(* The call recorded in applied, read under SpecPure, where genealogyData  *)
(* is the snapshot that call returned.                                     *)
(***************************************************************************)
Before == applied.data[1]

After == genealogyData[1]

TargetPositions == PositionsOf(Before, applied.userAddress)

(***************************************************************************)
(* C6.  For a snapshot with unique addresses, after                        *)
(* updateUserReferrals(t, C) the node with address t has children exactly  *)
(* C in the given order, is Known (Known-empty when C is empty, never      *)
(* Unknown) and keeps its id and address.                                  *)
(***************************************************************************)
C6_TargetGetsChildren ==
  (applied # <<>> /\ UniqueAddresses(Before)) =>
    \A q \in TargetPositions :
      /\ q \in Positions(After)
      /\ SubAt(After, q).fetched
      /\ SubAt(After, q).referrals = applied.referrals
      /\ SubAt(After, q).id = SubAt(Before, q).id
      /\ SubAt(After, q).address = SubAt(Before, q).address

\* a merge into a non-root node that already had other children
C6_Witness ==
  /\ applied # <<>>
  /\ UniqueAddresses(Before)
  /\ \E q \in TargetPositions :
       /\ q # <<>>
       /\ SubAt(Before, q).fetched
       /\ Len(SubAt(Before, q).referrals) > 0
       /\ Len(applied.referrals) = 2
       /\ SubAt(Before, q).referrals # applied.referrals

(***************************************************************************)
(* C7.  Merge idempotence: applying the same children to the same address  *)
(* a second time returns the snapshot the first application returned.      *)
(***************************************************************************)
C7_MergeIdempotent ==
  applied # <<>> =>
    updateUserReferrals(genealogyData, applied.userAddress, applied.referrals)
      = genealogyData

\* the first application changed a node that already had children
C7_Witness ==
  /\ applied # <<>>
  /\ genealogyData # applied.data
  /\ Len(applied.referrals) > 0
  /\ \E q \in TargetPositions : Len(SubAt(Before, q).referrals) > 0

(***************************************************************************)
(* C8.  Merge on a missing target: when no node of the snapshot has the    *)
(* target address, the snapshot is returned as it was.                     *)
(***************************************************************************)
C8_MissingTargetNoOp ==
  (applied # <<>> /\ TargetPositions = {}) => genealogyData = applied.data

\* a missing target, children to merge, and a snapshot with Unknown,
\* Known-empty and Known-populated nodes
C8_Witness ==
  /\ applied # <<>>
  /\ TargetPositions = {}
  /\ Len(applied.referrals) > 0
  /\ \E q \in Positions(Before) : ~SubAt(Before, q).fetched
  /\ \E q \in Positions(Before) :
       SubAt(Before, q).fetched /\ SubAt(Before, q).referrals = <<>>
  /\ \E q \in Positions(Before) : q # <<>> /\ Len(SubAt(Before, q).referrals) > 0

(***************************************************************************)
(* C9.  Merge locality, for a snapshot with unique addresses.              *)
(***************************************************************************)
\* q is the target or one of its ancestors
OnPath(q) == \E tp \in TargetPositions : IsPrefix(q, tp)

\* q lies below the target
BelowTarget(q) == \E tp \in TargetPositions : q # tp /\ IsPrefix(tp, q)

\* the node at q is in the returned snapshot as it was
Untouched(q) == q \in Positions(After) /\ SubAt(After, q) = SubAt(Before, q)

\* an ancestor at q changed in nothing but its child on the way to the target
AncestorKept(q) ==
  \A tp \in TargetPositions :
    (q # tp /\ IsPrefix(q, tp)) =>
      /\ q \in Positions(After)
      /\ SubAt(After, q).id = SubAt(Before, q).id
      /\ SubAt(After, q).address = SubAt(Before, q).address
      /\ SubAt(After, q).fetched = SubAt(Before, q).fetched
      /\ Len(SubAt(After, q).referrals) = Len(SubAt(Before, q).referrals)
      /\ \A i \in 1..Len(SubAt(Before, q).referrals) :
           i # tp[Len(q) + 1] =>
             SubAt(After, q).referrals[i] = SubAt(Before, q).referrals[i]

\* C9 as claimed: every node that is neither the target nor an ancestor of
\* it is unchanged, and an ancestor changes only in its child on the path
C9_LocalityAsClaimed ==
  (applied # <<>> /\ UniqueAddresses(Before)) =>
    \A q \in Positions(Before) :
      /\ ~OnPath(q) => Untouched(q)
      /\ AncestorKept(q)

\* C9 amended: every node that is neither the target, nor an ancestor of it,
\* nor a node of the target's previous subtree (which the merge replaces by
\* the new children) is unchanged, and an ancestor changes only in its child
\* on the path
C9_Locality ==
  (applied # <<>> /\ UniqueAddresses(Before)) =>
    \A q \in Positions(Before) :
      /\ (~OnPath(q) /\ ~BelowTarget(q)) => Untouched(q)
      /\ AncestorKept(q)

\* the target has an ancestor with another, Unknown, child beside it, and
\* the merge changed the snapshot
C9_Witness ==
  /\ applied # <<>>
  /\ UniqueAddresses(Before)
  /\ genealogyData # applied.data
  /\ \E tp \in TargetPositions, q \in Positions(Before) :
       /\ tp # <<>>
       /\ q # <<>>
       /\ ~IsPrefix(q, tp)
       /\ ~IsPrefix(tp, q)
       /\ ~SubAt(Before, q).fetched

(***************************************************************************)
(* C10.  countTotalUsers counts the nodes reachable from the root through  *)
(* Known-populated children, each once: an Unknown or Known-empty node     *)
(* adds nothing below itself.  A root with two Unknown children gives 3.   *)
(***************************************************************************)
C10_CountsReachableNodes ==
  genealogyData # <<>> =>
    /\ countTotalUsers(After) = Cardinality(Positions(After))
    /\ ( /\ After.fetched
         /\ Len(After.referrals) = 2
         /\ \A i \in 1..2 : ~After.referrals[i].fetched )
       => countTotalUsers(After) = 3

\* a snapshot with an Unknown node, a Known-empty node and a Known-populated
\* node below the root
C10_Witness ==
  /\ genealogyData # <<>>
  /\ \E q \in Positions(After) : ~SubAt(After, q).fetched
  /\ \E q \in Positions(After) :
       SubAt(After, q).fetched /\ SubAt(After, q).referrals = <<>>
  /\ \E q \in Positions(After) : q # <<>> /\ Len(SubAt(After, q).referrals) > 0
  /\ countTotalUsers(After) = 4

(***************************************************************************)
(* C11.  Count monotonicity: when a fetch completion merges the children   *)
(* of a node that is Unknown in the current snapshot, countTotalUsers of   *)
(* the new current snapshot is at least that of the one just before.       *)
(* Stated for snapshots in which no two nodes share an address.            *)
(***************************************************************************)
C11_CountNeverDecreases ==
  [][\A i \in 1..MaxInFlight, c \in ChildSeqs :
       (/\ FetchSucceed(i, c)
        /\ IsUnknown(genealogyData, fetches[i].address)
        /\ UniqueAddresses(genealogyData[1])
        /\ UniqueAddresses(genealogyData'[1]))
       => countTotalUsers(genealogyData'[1]) >= countTotalUsers(genealogyData[1])]_vars

(***************************************************************************)
(* C12.  directReferralCount of the snapshot.                              *)
(***************************************************************************)
\* C12 as claimed: the length of the root's children when the root is
\* Known-populated, nothing when the root is Unknown or Known-empty
C12_DirectCountAsClaimed ==
  genealogyData # <<>> =>
    directReferralCount(genealogyData) =
      (IF After.fetched /\ Len(After.referrals) > 0
         THEN <<Len(After.referrals)>> ELSE <<>>)

\* C12 amended: the length of the root's children whenever the root's
\* children are Known (0 when Known-empty), nothing only when they are
\* Unknown
C12_DirectCount ==
  genealogyData # <<>> =>
    /\ After.fetched => directReferralCount(genealogyData) = <<Len(After.referrals)>>
    /\ ~After.fetched => directReferralCount(genealogyData) = <<>>

\* a merge has left the root Known-empty
C12_Witness ==
  /\ applied # <<>>
  /\ applied.userAddress = RootAddress
  /\ After.fetched
  /\ After.referrals = <<>>
  /\ directReferralCount(genealogyData) = <<0>>

(***************************************************************************)
(* C13.  Depth bound: no fetch is issued past the bound, that is, no       *)
(* TreeNode at level MaxLevel or deeper has a fetch for its children in    *)
(* flight (its children would lie at level MaxLevel + 1 and are never      *)
(* rendered).                                                              *)
(***************************************************************************)
C13_NoFetchPastBound ==
  \A i \in 1..Len(fetches) : Len(fetches[i].inst) < MaxLevel

(***************************************************************************)
(* C14.  Toggling a collapsed node whose children are Known expands it in  *)
(* that step: it is expanded and not loading afterwards, no fetch was      *)
(* issued and the snapshot is the same.  So collapsing and re-expanding a  *)
(* node with Known children never fetches again.                           *)
(***************************************************************************)
C14_KnownExpandsDirectly ==
  [][\A p \in KeyPaths :
       (/\ Toggle(p)
        /\ ~view[p].isExpanded
        /\ childrenFetched(UserAt(genealogyData[1], p)))
       => /\ p \in DOMAIN view'
          /\ view'[p].isExpanded
          /\ ~view'[p].isLoading
          /\ fetches' = fetches
          /\ genealogyData' = genealogyData]_vars

\* a node below the root whose children were fetched is collapsed again and
\* can be toggled
C14_Witness ==
  \E p \in KeyPaths :
    /\ p # <<>>
    /\ ~view[p].isExpanded
    /\ childrenFetched(UserAt(genealogyData[1], p))
    /\ Len(UserAt(genealogyData[1], p).referrals) > 0
    /\ CanToggle(p)

(***************************************************************************)
(* C15.  Toggling an expanded node collapses it and changes nothing else:  *)
(* the snapshot is the same, every other TreeNode has the isExpanded and   *)
(* isLoading it had (an unmounted one has useState's initial values when   *)
(* it is shown again), and the same fetches are in flight.                 *)
(***************************************************************************)
InFlight(fs) == [i \in 1..Len(fs) |-> fs[i].address]

C15_CollapseIsLocal ==
  [][\A p \in KeyPaths :
       Collapse(p)
       => /\ ~StateOf(view', p).isExpanded
          /\ genealogyData' = genealogyData
          /\ InFlight(fetches') = InFlight(fetches)
          /\ \A q \in KeyPaths \ {p} : StateOf(view', q) = view[q]]_vars

(***************************************************************************)
(* C16.  Single writer: once there is a snapshot, it changes only in a     *)
(* step in which a fetch completes and updateUserReferrals is applied.     *)
(***************************************************************************)
C16_SingleWriter ==
  [][(genealogyData # <<>> /\ genealogyData' # genealogyData)
     => \E i \in 1..MaxInFlight, c \in ChildSeqs : FetchSucceed(i, c)]_vars

(***************************************************************************)
(* C17.  Uniqueness of addresses in the snapshots updateUserReferrals      *)
(* returns.                                                                *)
(***************************************************************************)
\* C17 as claimed: whatever the child sequences, no two nodes of the
\* snapshot share an address
C17_UniqueAsClaimed ==
  genealogyData # <<>> => UniqueAddresses(After)

\* the merged children have pairwise different addresses, none of them
\* carried by a node of the snapshot other than those below the target
FreshChildren ==
  /\ Distinct(AddressSeq(applied.referrals))
  /\ \A i \in 1..Len(applied.referrals), q \in Positions(Before) :
       SubAt(Before, q).address = applied.referrals[i].address => BelowTarget(q)

\* C17 amended: a snapshot with unique addresses stays one when the
\* merged children are fresh
C17_UniqueWhenFresh ==
  (applied # <<>> /\ UniqueAddresses(Before) /\ FreshChildren)
    => UniqueAddresses(After)

\* fresh children were merged into a node that had other children before
C17_Witness ==
  /\ applied # <<>>
  /\ UniqueAddresses(Before)
  /\ FreshChildren
  /\ Len(applied.referrals) > 0
  /\ \E q \in TargetPositions :
       /\ SubAt(Before, q).fetched
       /\ Len(SubAt(Before, q).referrals) > 0
       /\ SubAt(Before, q).referrals # applied.referrals
  /\ UniqueAddresses(After)

(***************************************************************************)
(* C18.  No cancellation: when the fetch of a TreeNode that has been       *)
(* unmounted since (an ancestor was collapsed) succeeds, its children are  *)
(* merged all the same: the node, Unknown until then, has the fetched      *)
(* children in the new snapshot, and every other node whose children were  *)
(* Known has the children it had.                                          *)
(* Stated for snapshots in which no two nodes share an address.            *)
(***************************************************************************)
C18_OrphanStillMerged ==
  [][\A i \in 1..MaxInFlight, c \in ChildSeqs :
       (/\ FetchSucceed(i, c)
        /\ ~fetches[i].live
        /\ IsUnknown(genealogyData, fetches[i].address)
        /\ UniqueAddresses(genealogyData[1])
        /\ UniqueAddresses(genealogyData'[1]))
       => /\ IsKnown(genealogyData', fetches[i].address)
          /\ KidsOf(genealogyData', fetches[i].address) = {AddressSeq(c)}
          /\ \A a \in AllAddrs \ {fetches[i].address} :
               IsKnown(genealogyData, a)
               => /\ IsKnown(genealogyData', a)
                  /\ KidsOf(genealogyData', a) = KidsOf(genealogyData, a)]_vars

(***************************************************************************)
(* C19.  Which nodes have the expand button.                               *)
(***************************************************************************)
\* the TreeNode at p has not been toggled: it has useState's initial values
\* and no fetch was started from it
NeverToggled(p) ==
  /\ view[p] = InitialState(Len(p))
  /\ \A i \in 1..Len(fetches) : fetches[i].inst # p

\* C19 as claimed: a mounted TreeNode whose user is Known-empty, or Unknown
\* and never toggled, cannot be toggled
C19_NoButtonAsClaimed ==
  \A p \in KeyPaths :
    LET user == UserAt(genealogyData[1], p)
    IN (\/ (user.fetched /\ Len(user.referrals) = 0)
        \/ (~user.fetched /\ NeverToggled(p)))
       => ~CanToggle(p)

\* C19 amended: a Known-empty user's TreeNode cannot be toggled; an
\* Unknown user's TreeNode can, unless its fetch is being awaited
C19_NoButton ==
  \A p \in KeyPaths :
    LET user == UserAt(genealogyData[1], p)
    IN /\ (user.fetched /\ Len(user.referrals) = 0) => ~CanToggle(p)
       /\ (~user.fetched /\ ~view[p].isLoading) => CanToggle(p)

\* a fetch returned the empty sequence for a node below the root, which is
\* shown Known-empty next to a never toggled Unknown node
C19_Witness ==
  /\ applied # <<>>
  /\ applied.referrals = <<>>
  /\ \E p, q \in KeyPaths :
       /\ p # <<>>
       /\ UserAt(genealogyData[1], p).address = applied.userAddress
       /\ UserAt(genealogyData[1], p).fetched
       /\ Len(UserAt(genealogyData[1], p).referrals) = 0
       /\ ~CanToggle(p)
       /\ ~UserAt(genealogyData[1], q).fetched
       /\ NeverToggled(q)
       /\ CanToggle(q)

(***************************************************************************)
(* C20.  Merge before expand: a TreeNode below the root is expanded only   *)
(* when its user's children are Known in the current snapshot.             *)
(***************************************************************************)
C20_ExpandedHasKnownChildren ==
  \A p \in KeyPaths :
    (p # <<>> /\ view[p].isExpanded)
      => childrenFetched(UserAt(genealogyData[1], p))

(***************************************************************************)
(* C21.  A node leaves Expanding only when its own fetch resolves: as long *)
(* as the fetch started from a TreeNode has not resolved, that TreeNode,   *)
(* where it is shown, is loading and its button is disabled.               *)
(***************************************************************************)
C21_ExpandingUntilResolved ==
  \A i \in 1..Len(fetches) :
    fetches[i].inst \in KeyPaths
      => /\ view[fetches[i].inst].isLoading
         /\ ~CanToggle(fetches[i].inst)

\* the eventual part of C21, under SpecDeepFair: when every fetch settles,
\* a TreeNode that is loading is later not loading (or no longer mounted)
C21_LoadingEnds ==
  \A k \in 0..MaxChain :
    (ChainPath(k) \in KeyPaths /\ view[ChainPath(k)].isLoading)
      ~> ~(ChainPath(k) \in KeyPaths /\ view[ChainPath(k)].isLoading)

====
